---- MODULE Spec2Model ----
(***************************************************************************)
(* Model of ctd_tools/modules/reader.py: the AbstractReader helpers and    *)
(* the format readers (CNV, TOB, NetCDF, CSV, RBR ASCII, Nortek ASCII,     *)
(* RBR legacy).  A reader is constructed synchronously; the model follows  *)
(* one construction at a time and keeps the state that outlives a          *)
(* construction (the default-argument dictionaries of the constructors and *)
(* the caller's own mapping object).                                       *)
(***************************************************************************)
EXTENDS Integers, Sequences, FiniteSets, TLC

\* ------------------------------------------------------------------ bounds
\* Number of samples (rows) of an input file.
MaxSamples == 2
\* Number of readers constructed one after the other in one run.
MaxReaders == 2
\* Resolution of a raw Julian-day value: fractions per day.
DayFractions == 4

\* ----------------------------------------------------- Python values
\* None, numbers and strings are tagged so that values of different Python
\* types can be compared the way Python compares them (never equal).
None == [tag |-> "None"]
Num(n) == [tag |-> "num", v |-> n]
Str(s) == [tag |-> "str", v |-> s]
NaN == [tag |-> "nan"]

IsNone(x) == x.tag = "None"

\* Python ==: values of different types are unequal, NaN equals nothing.
PyEq(a, b) == a.tag = b.tag /\ a.tag \in {"num", "str"} /\ a.v = b.v

\* Truth value of a Python str (or None): the empty string and None are falsy.
Truthy(s) == s # ""

\* A text is a sequence of tokens (words, blanks, brackets); an optional text
\* is None or Str(text).
TextTruthy(x) == x.tag = "str" /\ x.v # <<>>

\* A dict is its items in insertion order: a sequence of <<key, value>>.
DictHas(d, k) == \E i \in DOMAIN d : d[i][1] = k
DictGet(d, k) == d[CHOOSE i \in DOMAIN d : d[i][1] = k][2]
DictKeys(d) == {d[i][1] : i \in DOMAIN d}
DictSet(d, k, v) ==
    IF DictHas(d, k)
    THEN [i \in DOMAIN d |-> IF d[i][1] = k THEN <<k, v>> ELSE d[i]]
    ELSE Append(d, <<k, v>>)

\* f with x mapped to y (x may be new to f).
Put(f, x, y) == [z \in (DOMAIN f) \cup {x} |-> IF z = x THEN y ELSE f[z]]
Without(f, x) == [z \in (DOMAIN f) \ {x} |-> f[z]]
EmptyFn == [z \in {} |-> z]

\* ------------------------------------------------ ctd_parameters (registry)
TIME == "time"
TIME_J == "timeJ"
TIME_Q == "timeQ"
TIME_N == "timeN"
TIME_S == "timeS"
PRESSURE == "pressure"
DEPTH == "depth"
TEMPERATURE == "temperature"
SALINITY == "salinity"
CONDUCTIVITY == "conductivity"
LATITUDE == "latitude"
LONGITUDE == "longitude"
SPEED_OF_SOUND == "speed_of_sound"
POWER_SUPPLY_INPUT_VOLTAGE == "power_supply_input_voltage"

\* default_mappings: canonical key -> aliases, in declaration order.
default_mappings ==
    << <<TEMPERATURE, <<"t090C", "t068", "Temperature">> >>,
       <<SALINITY, <<"sal00">> >>,
       <<PRESSURE, <<"prDM", "Pressure">> >>,
       <<DEPTH, <<"depSM">> >>,
       <<LATITUDE, <<"latitude">> >>,
       <<LONGITUDE, <<"longitude">> >>,
       <<TIME_J, <<"timeJ">> >>,
       <<TIME_Q, <<"timeQ">> >>,
       <<TIME_N, <<"timeN">> >>,
       <<TIME_S, <<"timeS">> >> >>

\* metadata: canonical key -> default attributes.
metadata ==
    << <<TEMPERATURE, [long_name |-> <<"Temperature">>, units |-> <<"degC">>]>>,
       <<SALINITY, [long_name |-> <<"Salinity">>, units |-> <<"PSU">>]>>,
       <<PRESSURE, [long_name |-> <<"Pressure">>, units |-> <<"dbar">>]>>,
       <<DEPTH, [long_name |-> <<"Depth">>, units |-> <<"m">>]>>,
       <<TIME, [long_name |-> <<"Time">>]>> >>

\* rename_list: fixed column rename table of the RBR and Nortek ASCII readers.
rename_list ==
    << <<"Temp", TEMPERATURE>>, <<"Pres", PRESSURE>>, <<"Sal", SALINITY>> >>

\* str.lower() on the names the model uses; a name without upper-case
\* letters is its own lower-case form.
LowerTable ==
    << <<"T090C", "t090c">>, <<"t090C", "t090c">>, <<"T068", "t068">>,
       <<"Temperature", "temperature">>, <<"TEMPERATURE", "temperature">>,
       <<"prDM", "prdm">>, <<"PRDM", "prdm">>, <<"Sal00", "sal00">>,
       <<"timeJ", "timej">>, <<"timeQ", "timeq">>, <<"timeN", "timen">>,
       <<"timeS", "times">>, <<"Temp", "temp">>, <<"Pres", "pres">>,
       <<"Sal", "sal">>, <<"Pressure", "pressure">>, <<"Salinity", "salinity">> >>
Lower(s) == IF DictHas(LowerTable, s) THEN DictGet(LowerTable, s) ELSE s

\* ------------------------------------------------------------ time decoding
\* Timestamps are whole seconds since 1970-01-01 00:00:00.
SecondsPerDay == 86400
\* datetime(2000, 1, 1) in seconds since 1970.
Epoch2000 == 946684800
\* datetime(1970, 1, 1)
Epoch1970 == 0
\* A raw Julian-day value is given in fractions of a day, so that fractional
\* days exist: the raw value q stands for the float q / DayFractions.
QuartersPerDay == DayFractions

LeapsBefore(y) == ((y - 1) \div 4) - ((y - 1) \div 100) + ((y - 1) \div 400)
\* datetime(year, 1, 1)
YearStart(y) == (365 * (y - 1970) + LeapsBefore(y) - LeapsBefore(1970)) * SecondsPerDay
\* A header date is [year, soy]: soy seconds into the year.
DateToSeconds(d) == YearStart(d.year) + d.soy

\* int(x) of the float q / 4: truncation toward zero.
IntOfQuarters(q) ==
    IF q >= 0 THEN q \div QuartersPerDay ELSE -((-q) \div QuartersPerDay)

_julian_to_gregorian(julian_days, start_date) ==
    LET full_days == IntOfQuarters(julian_days)
        seconds == ((julian_days - full_days * QuartersPerDay) * 24 * 60 * 60)
                       \div QuartersPerDay
    IN  start_date + full_days * SecondsPerDay + seconds

_elapsed_seconds_since_jan_1970_to_datetime(elapsed_seconds) ==
    Epoch1970 + elapsed_seconds

_elapsed_seconds_since_jan_2000_to_datetime(elapsed_seconds) ==
    Epoch2000 + elapsed_seconds

_elapsed_seconds_since_offset_to_datetime(elapsed_seconds, offset_datetime) ==
    offset_datetime + elapsed_seconds

\* -------------------------------------------------------------- validation
\* The error _validate_necessary_parameters raises on a container with the
\* given keys, "" when it returns.  Python reads
\*   not TIME and not TIME_J and not TIME_Q and not TIME_N in data
\* as (not TIME) and (not TIME_J) and (not TIME_Q) and (not (TIME_N in data)).
_validate_necessary_parameters(keys) ==
    IF ~Truthy(TIME) /\ ~Truthy(TIME_J) /\ ~Truthy(TIME_Q) /\ ~(TIME_N \in keys)
    THEN "ValueError"
    ELSE IF ~(PRESSURE \in keys) /\ ~Truthy(DEPTH)
    THEN "ValueError"
    ELSE ""

\* ---------------------------------------------------------------- metadata
\* An attribute value is [val, src]: val the stored value, src the source it
\* came from ("registry": a registry default, "native": a label or unit given
\* by the caller or the file format).
Blank == " "

RECURSIVE Replace(_, _)
\* str.replace(pat, ''): every non-overlapping occurrence, left to right.
Replace(s, pat) ==
    IF Len(s) < Len(pat) THEN s
    ELSE IF SubSeq(s, 1, Len(pat)) = pat
         THEN Replace(SubSeq(s, Len(pat) + 1, Len(s)), pat)
         ELSE <<Head(s)>> \o Replace(Tail(s), pat)

RECURSIVE LStrip(_)
LStrip(s) == IF s # <<>> /\ Head(s) = Blank THEN LStrip(Tail(s)) ELSE s
RECURSIVE RStrip(_)
RStrip(s) ==
    IF s # <<>> /\ s[Len(s)] = Blank THEN RStrip(SubSeq(s, 1, Len(s) - 1)) ELSE s
\* str.strip()
Strip(s) == RStrip(LStrip(s))

\* label.replace(f"[{unit}]", '').strip()
StripUnit(label, unit) == Strip(Replace(label, <<"[">> \o unit \o <<"]">>))

\* The fill that stores a registry default whether or not the attribute is set.
FillDefaultsOverwriting(attrs, defaults, todo) ==
    [a \in (DOMAIN attrs) \cup todo |->
        IF a \in todo THEN [val |-> Str(defaults[a]), src |-> "registry"] ELSE attrs[a]]

RECURSIVE FillDefaults(_, _, _)
\* for attribute, value in metadata[key].items():
\*     if attribute not in attrs: attrs[attribute] = value
FillDefaults(attrs, defaults, todo) ==
    IF todo = {} THEN attrs
    ELSE LET a == CHOOSE x \in todo : TRUE
             next == IF a \in DOMAIN attrs THEN attrs
                     ELSE Put(attrs, a, [val |-> Str(defaults[a]), src |-> "registry"])
         IN  FillDefaults(next, defaults, todo \ {a})

\* The attributes of ds[key] after
\* _assign_metadata_for_key_to_xarray_dataset(ds, key, label, unit).
AssignMetadata(attrs, key, label, unit) ==
    LET a1 == IF DictHas(metadata, key)
              THEN FillDefaults(attrs, DictGet(metadata, key),
                                DOMAIN DictGet(metadata, key))
              ELSE attrs
        a2 == IF TextTruthy(unit)
              THEN Put(a1, "units", [val |-> unit, src |-> "native"])
              ELSE a1
        lab == IF TextTruthy(unit) THEN Str(StripUnit(label.v, unit.v)) ELSE label
    IN  IF TextTruthy(label)
        THEN Put(a2, "long_name", [val |-> lab, src |-> "native"])
        ELSE a2

\* ----------------------------------------------------------------- dataset
\* An xarray Dataset is [vars, coords]: vars the variables (data variables and
\* coordinates) as a dict name -> [values, attrs] in insertion order, coords
\* the names that are coordinates.  A call that raises yields Raise(error).
Ok(ds) == [ok |-> TRUE, ds |-> ds]
Raise(e) == [ok |-> FALSE, err |-> e]

Variables(ds) == DictKeys(ds.vars)
DataVars(ds) == Variables(ds) \ ds.coords
HasVar(ds, name) == name \in Variables(ds)
Var(ds, name) == DictGet(ds.vars, name)

NewName(name_dict, n) == IF DictHas(name_dict, n) THEN DictGet(name_dict, n) ELSE n

\* xarray Dataset.rename(name_dict): every key must be a variable, and no two
\* variables may end up under one name.
Rename(ds, name_dict) ==
    LET renamed == [i \in DOMAIN ds.vars |->
                       <<NewName(name_dict, ds.vars[i][1]), ds.vars[i][2]>>]
    IN  IF \E k \in DictKeys(name_dict) : ~HasVar(ds, k)
        THEN Raise("ValueError")
        ELSE IF \E i, j \in DOMAIN renamed : i < j /\ renamed[i][1] = renamed[j][1]
        THEN Raise("ValueError")
        ELSE Ok([ds EXCEPT !.vars = renamed,
                           !.coords = {NewName(name_dict, c) : c \in ds.coords}])

\* ds_vars_lower = {var.lower(): var for var in ds.variables}: of several
\* variables with one lower-case form the last in order is kept.
LowerKeys(ds) == {Lower(n) : n \in Variables(ds)}
DsVarsLower(ds, low) ==
    LET hits == {i \in DOMAIN ds.vars : Lower(ds.vars[i][1]) = low}
    IN  ds.vars[CHOOSE i \in hits : \A j \in hits : j <= i][1]

\* The first alias of the list that matches a variable, 0 when none does.
FirstAlias(aliases, ds) ==
    LET hits == {j \in DOMAIN aliases : Lower(aliases[j]) \in LowerKeys(ds)}
    IN  IF hits = {} THEN 0 ELSE CHOOSE j \in hits : \A k \in hits : j <= k

RECURSIVE BuildRenameDict(_, _, _, _)
\* The loop over the registry that fills rename_dict.
BuildRenameDict(reg, i, ds, rename_dict) ==
    IF i > Len(reg) THEN rename_dict
    ELSE LET standard_name == reg[i][1]
             aliases == reg[i][2]
             j == FirstAlias(aliases, ds)
         IN  IF j # 0 /\ ~HasVar(ds, standard_name)
             THEN BuildRenameDict(reg, i + 1, ds,
                      DictSet(rename_dict, DsVarsLower(ds, Lower(aliases[j])),
                              standard_name))
             ELSE BuildRenameDict(reg, i + 1, ds, rename_dict)

\* _rename_xarray_parameters with the registry as a parameter.
RenameXarrayParameters(ds, reg) == Rename(ds, BuildRenameDict(reg, 1, ds, <<>>))

_rename_xarray_parameters(ds) == RenameXarrayParameters(ds, default_mappings)

RECURSIVE ApplyMapping(_, _, _)
\* for key, value in self.mapping.items():
\*     if value in ds.variables: ds = ds.rename({value: key})
ApplyMapping(ds, mapping, i) ==
    IF i > Len(mapping) THEN Ok(ds)
    ELSE LET key == mapping[i][1]
             value == mapping[i][2]
         IN  IF HasVar(ds, value)
             THEN LET r == Rename(ds, << <<value, key>> >>)
                  IN  IF r.ok THEN ApplyMapping(r.ds, mapping, i + 1) ELSE r
             ELSE ApplyMapping(ds, mapping, i + 1)

\* for key in data_vars + coords: _assign_metadata_for_key_to_xarray_dataset(ds, key)
AssignMetadataAll(ds) ==
    [ds EXCEPT !.vars =
        [i \in DOMAIN ds.vars |->
            <<ds.vars[i][1],
              [ds.vars[i][2] EXCEPT
                  !.attrs = AssignMetadata(ds.vars[i][2].attrs, ds.vars[i][1],
                                           None, None)]>>]]

\* _perform_default_postprocessing with self.mapping (None or a dict) and the
\* registry as parameters.
PerformDefaultPostprocessing(ds, mapping, reg) ==
    LET r1 == IF IsNone(mapping) THEN Ok(ds) ELSE ApplyMapping(ds, mapping.v, 1)
        r2 == IF r1.ok THEN RenameXarrayParameters(r1.ds, reg) ELSE r1
    IN  IF r2.ok THEN Ok(AssignMetadataAll(r2.ds)) ELSE r2

\* xr.Dataset(coords = dict(time, depth, latitude, longitude), attrs = ...)
\* of _get_xarray_dataset_template.  xarray refuses a None data array under
\* the dimension 'time' (depth_array = None): ValueError.
_get_xarray_dataset_template(time_array, depth_array, latitude, longitude) ==
    IF IsNone(depth_array) THEN Raise("ValueError")
    ELSE Ok([vars |-> << <<TIME, [values |-> time_array, attrs |-> EmptyFn]>>,
                         <<DEPTH, [values |-> depth_array.v, attrs |-> EmptyFn]>>,
                         <<LATITUDE, [values |-> <<latitude>>, attrs |-> EmptyFn]>>,
                         <<LONGITUDE, [values |-> <<longitude>>, attrs |-> EmptyFn]>> >>,
             coords |-> {TIME, DEPTH, LATITUDE, LONGITUDE},
             attrs |-> [latitude |-> latitude, longitude |-> longitude,
                        DataType |-> "TimeSeries"]])

\* ds[key] = xr.DataArray(data, dims = TIME); ds[key].attrs = {}
_assign_data_for_key_to_xarray_dataset(ds, key, data) ==
    [ds EXCEPT !.vars = DictSet(@, key, [values |-> data, attrs |-> EmptyFn])]

\* _assign_metadata_for_key_to_xarray_dataset on the dataset.
_assign_metadata_for_key_to_xarray_dataset(ds, key, label, unit) ==
    [ds EXCEPT !.vars =
        DictSet(@, key, [Var(ds, key) EXCEPT
                            !.attrs = AssignMetadata(@, key, label, unit)])]

\* --------------------------------------------------------------- CnvReader
\* What pycnv gives for a CNV file: the channel names in file order, the
\* header fields, and per channel the data, the label and the unit.
\* float(text) of the texts the model's headers use.
FloatOf(text) == CASE text = "-9999" -> -9999 [] text = "0" -> 0 [] text = "2" -> 2

ChannelIndex(c) ==
    CASE c \in {"timeJ"} -> 0
      [] c \in {"timeQ"} -> 10
      [] c \in {"timeN"} -> 20
      [] c \in {"timeS"} -> 30
      [] c \in {"prDM"} -> 40
      [] c \in {"t090C", "T090C"} -> 50
      [] c \in {"t068"} -> 60
      [] c \in {"sal00"} -> 70
      [] OTHER -> 80

\* cnv.data[c]: the samples of channel c: the file's base column shifted by
\* the channel; the samples the instrument flagged bad hold the number the
\* header's bad flag names.
CnvData(cnv, c) ==
    [i \in DOMAIN cnv.base |->
        IF i \in cnv.bad THEN Num(FloatOf(cnv.bad_flag.v))
        ELSE Num(cnv.base[i] + ChannelIndex(c))]

\* cnv.units[c] and cnv.names[c]
CnvUnit(c) ==
    CASE c \in {"t090C", "T090C", "t068"} -> Str(<<"deg C">>)
      [] c = "prDM" -> Str(<<"db">>)
      [] c = "sal00" -> Str(<<"PSU">>)
      [] c = "latitude" -> Str(<<"deg">>)
      [] OTHER -> Str(<<>>)
CnvName(c) ==
    CASE c \in {"t090C", "T090C", "t068"} -> Str(<<"Temperature", " ", "[", "deg C", "]">>)
      [] c = "prDM" -> Str(<<"Pressure", " ", "[", "db", "]">>)
      [] c = "sal00" -> Str(<<"Salinity", " ", "[", "PSU", "]">>)
      [] c = "latitude" -> Str(<<"Latitude", " ", "[", "deg", "]">>)
      [] OTHER -> Str(<<c>>)

SeqToSet(q) == {q[i] : i \in DOMAIN q}

\* __get_scan_interval_in_seconds: the header has the directive or not;
\* cnv.interval is None or the number written in it.
__get_scan_interval_in_seconds(cnv) ==
    IF IsNone(cnv.interval) THEN None ELSE Num(FloatOf(cnv.interval.v))
\* __get_bad_flag: None or the text after '# bad_flag = ', a str.
__get_bad_flag(cnv) == cnv.bad_flag

RECURSIVE MapChannels(_, _, _, _)
\* Lines 204-210: for each registry key not in self.mapping, the first alias
\* that is a channel name (as written) is entered in self.mapping.
MapChannels(reg, i, channel_names, mapping) ==
    IF i > Len(reg) THEN mapping
    ELSE LET key == reg[i][1]
             values == reg[i][2]
             hits == {j \in DOMAIN values : values[j] \in channel_names}
         IN  IF ~DictHas(mapping, key) /\ hits # {}
             THEN MapChannels(reg, i + 1, channel_names,
                      DictSet(mapping, key,
                              values[CHOOSE j \in hits : \A k \in hits : j <= k]))
             ELSE MapChannels(reg, i + 1, channel_names, mapping)

\* xarray_data as a dict key -> samples, for a mapping whose channels exist.
XarrayData(cnv, mapping) ==
    [i \in DOMAIN mapping |-> <<mapping[i][1], CnvData(cnv, mapping[i][2])>>]

\* Lines 227-240: the time coordinate, Raise(..) where the code raises or
\* leaves time_coords unassigned (UnboundLocalError at its first use).
CnvTimeCoords(cnv, xarray_data, offset_datetime) ==
    LET Decode(F(_), k) ==
            LET raw == DictGet(xarray_data, k)
            IN  Ok([i \in DOMAIN raw |-> Num(F(raw[i].v))])
        year_startdate == YearStart(cnv.date.year)
        J(x) == _julian_to_gregorian(x, year_startdate)
        Q(x) == _elapsed_seconds_since_jan_2000_to_datetime(x)
        N(x) == _elapsed_seconds_since_jan_1970_to_datetime(x)
        S(x) == _elapsed_seconds_since_offset_to_datetime(x, offset_datetime)
        maxCount == Len(cnv.base)
        timedelta == __get_scan_interval_in_seconds(cnv)
    IN  IF DictHas(xarray_data, TIME_J) THEN Decode(J, TIME_J)
        ELSE IF DictHas(xarray_data, TIME_Q) THEN Decode(Q, TIME_Q)
        ELSE IF DictHas(xarray_data, TIME_N)
             THEN \* reads xarray_data[TIME_Q], which this branch excludes
                  IF DictHas(xarray_data, TIME_Q) THEN Decode(N, TIME_Q)
                  ELSE Raise("KeyError")
        ELSE IF DictHas(xarray_data, TIME_S) THEN Decode(S, TIME_S)
        ELSE IF ~IsNone(timedelta) /\ timedelta.v # 0
             THEN IF xarray_data = <<>> THEN Raise("UnboundLocalError")
                  ELSE Ok([i \in 1..maxCount |->
                              Num(offset_datetime + (i - 1) * timedelta.v)])
        ELSE Raise("UnboundLocalError")

\* gsw.conversions.z_from_p on one sample: the library's function of pressure
\* and latitude, left uninterpreted.
z_from_p(p, lat) == [tag |-> "z", p |-> p, lat |-> lat]
rho(SA, t, p) == [tag |-> "rho", SA |-> SA, t |-> t, p |-> p]
pt0_from_t(SA, t, p) == [tag |-> "pt0", SA |-> SA, t |-> t, p |-> p]

\* Python !=
PyNe(a, b) == ~PyEq(a, b)

\* ds[var].where(ds[var] != bad_flag, np.nan) on the samples of one variable.
Where(values, bad_flag) ==
    [i \in DOMAIN values |-> IF PyNe(values[i], bad_flag) THEN values[i] ELSE NaN]

\* Lines 280-284 on the whole dataset: only data variables are visited.
ReplaceBadFlag(ds, bad_flag) ==
    IF IsNone(bad_flag) THEN ds
    ELSE [ds EXCEPT !.vars =
            [i \in DOMAIN ds.vars |->
                IF ds.vars[i][1] \in ds.coords THEN ds.vars[i]
                ELSE <<ds.vars[i][1],
                       [ds.vars[i][2] EXCEPT !.values = Where(@, bad_flag)]>>]]

RECURSIVE AssignMapped(_, _, _, _)
\* Lines 270-274: data and metadata for each key of self.mapping.
AssignMapped(ds, mapping, xarray_data, i) ==
    IF i > Len(mapping) THEN ds
    ELSE LET key == mapping[i][1]
             d1 == _assign_data_for_key_to_xarray_dataset(
                       ds, key, DictGet(xarray_data, key))
             d2 == _assign_metadata_for_key_to_xarray_dataset(
                       d1, key, CnvName(mapping[i][2]), CnvUnit(mapping[i][2]))
         IN  AssignMapped(d2, mapping, xarray_data, i + 1)

\* Lines 256-266: density and potential temperature.
CnvDerive(ds, xarray_data) ==
    IF DictHas(xarray_data, TEMPERATURE) /\ DictHas(xarray_data, PRESSURE)
           /\ DictHas(xarray_data, SALINITY)
    THEN LET SA == DictGet(xarray_data, SALINITY)
             t == DictGet(xarray_data, TEMPERATURE)
             p == DictGet(xarray_data, PRESSURE)
             d1 == [ds EXCEPT !.vars = DictSet(@, "density",
                       [values |-> [i \in DOMAIN p |-> rho(SA[i], t[i], p[i])],
                        attrs |-> EmptyFn])]
         IN  [d1 EXCEPT !.vars = DictSet(@, "potential_temperature",
                       [values |-> [i \in DOMAIN p |-> pt0_from_t(SA[i], t[i], p[i])],
                        attrs |-> EmptyFn])]
    ELSE ds

\* Lines 242-251: depth (None without a pressure channel).  gswNoneLat is what
\* the installed gsw does with a None latitude: "raise" or "nan".
CnvDepth(cnv, xarray_data, gswNoneLat) ==
    IF ~DictHas(xarray_data, PRESSURE) THEN Ok(None)
    ELSE IF (IsNone(cnv.lat) /\ DictHas(xarray_data, LATITUDE)
                 /\ DictGet(xarray_data, LATITUDE) = <<>>)
            \/ (IsNone(cnv.lon) /\ DictHas(xarray_data, LONGITUDE)
                 /\ DictGet(xarray_data, LONGITUDE) = <<>>)
    THEN Raise("IndexError")
    ELSE IF IsNone(cnv.lat) /\ gswNoneLat = "raise" THEN Raise("TypeError")
    ELSE LET p == DictGet(xarray_data, PRESSURE)
         IN  Ok(Str([i \in DOMAIN p |->
                        IF IsNone(cnv.lat) THEN NaN ELSE z_from_p(p[i], cnv.lat)]))

\* CnvReader.__read from line 214 on, given self.mapping after the channel
\* mapping: Ok(dataset) when self.data is assigned, Raise(error) otherwise.
CnvBuild(cnv, mapping, gswNoneLat) ==
    IF \E i \in DOMAIN mapping : mapping[i][2] \notin SeqToSet(cnv.channels)
    THEN Raise("KeyError")
    ELSE
    LET xarray_data == XarrayData(cnv, mapping)
        offset_datetime == DateToSeconds(cnv.date)
        time_coords == CnvTimeCoords(cnv, xarray_data, offset_datetime)
        depth == CnvDepth(cnv, xarray_data, gswNoneLat)
        tmpl == _get_xarray_dataset_template(time_coords.ds, depth.ds, cnv.lat, cnv.lon)
    IN  IF ~time_coords.ok /\ time_coords.err = "KeyError" THEN time_coords
        ELSE IF ~depth.ok THEN depth
        ELSE IF ~time_coords.ok THEN time_coords
        ELSE IF ~tmpl.ok THEN tmpl
        ELSE Ok(ReplaceBadFlag(
                   AssignMetadataAll(
                       AssignMapped(CnvDerive(tmpl.ds, xarray_data),
                                    mapping, xarray_data, 1)),
                   __get_bad_flag(cnv)))

\* CnvReader.__read: [mapping, result]: the mapping object as the call leaves
\* it and the outcome.
CnvRead(cnv, mapping, gswNoneLat) ==
    IF ~cnv.readable THEN [mapping |-> mapping, result |-> Raise("OSError")]
    ELSE LET m == MapChannels(default_mappings, 1, SeqToSet(cnv.channels), mapping)
             v == _validate_necessary_parameters(DictKeys(m))
         IN  [mapping |-> m,
              result |-> IF v # "" THEN Raise(v) ELSE CnvBuild(cnv, m, gswNoneLat)]

\* ------------------------------------------------------------ NetCdfReader
\* xr.open_dataset(file): the dataset as the file holds it.
OpenDataset(nc) ==
    IF ~nc.readable THEN Raise("OSError")
    ELSE Ok([vars |-> [i \in DOMAIN nc.names |->
                          <<nc.names[i],
                            [values |-> [k \in 1..nc.n |-> Num(k)], attrs |-> EmptyFn]>>],
             coords |-> SeqToSet(nc.names) \cap {TIME, DEPTH},
             attrs |-> EmptyFn])

\* ------------------------------------------------------- text file readers
\* The timestamp texts of the model's files and what parsing makes of them;
\* any other text is malformed.
TimeTexts == {"00:00:01", "00:00:02", "bad"}
IsTimeText(t) == t \in {"00:00:01", "00:00:02"}
ParseTime(t) == YearStart(2020) + (IF t = "00:00:01" THEN 1 ELSE 2)
NaT == [tag |-> "NaT"]
\* float(text) succeeds
IsFloatText(t) == t \in {"-9999", "0", "2"}

\* xr.Dataset.from_dataframe(df) for a frame indexed by 'time': the index is
\* the coordinate, each column a data variable.  Two columns of one name
\* cannot be converted.
FromDataframe(time_values, columns) ==
    IF \E i, j \in DOMAIN columns : i < j /\ columns[i][1] = columns[j][1]
    THEN Raise("ValueError")
    ELSE Ok([vars |-> << <<TIME, [values |-> time_values, attrs |-> EmptyFn]>> >>
                      \o [i \in DOMAIN columns |->
                            <<columns[i][1],
                              [values |-> columns[i][2], attrs |-> EmptyFn]>>],
             coords |-> {TIME},
             attrs |-> EmptyFn])

\* ds[name].attrs[attribute] = value, set by a reader directly.
SetAttr(ds, name, attribute, value) ==
    [ds EXCEPT !.vars =
        DictSet(@, name, [Var(ds, name) EXCEPT
                            !.attrs = Put(@, attribute,
                                          [val |-> value, src |-> "native"])])]

\* ---------------------------------------------------------------- CsvReader
\* csv.DictReader: one list per column; without rows the dict stays empty.
CsvColumns(csv) ==
    IF csv.times = <<>> THEN <<>>
    ELSE [i \in DOMAIN csv.cols |->
            <<csv.cols[i],
              IF csv.cols[i] = TIME THEN [k \in DOMAIN csv.times |-> Str(csv.times[k])]
              ELSE [k \in DOMAIN csv.times |-> Str(csv.cell)]>>]

\* Lines 403-411: time parsed with strptime, registry keys converted to float.
CsvConvert(d) ==
    [i \in DOMAIN d |->
        <<d[i][1],
          IF d[i][1] = TIME THEN [k \in DOMAIN d[i][2] |-> Num(ParseTime(d[i][2][k].v))]
          ELSE IF DictHas(default_mappings, d[i][1])
               THEN [k \in DOMAIN d[i][2] |-> Num(FloatOf(d[i][2][k].v))]
               ELSE d[i][2]>>]

RECURSIVE CsvAssign(_, _, _)
\* Lines 420-422: data and registry metadata for every column.
CsvAssign(ds, d, i) ==
    IF i > Len(d) THEN ds
    ELSE CsvAssign(
             _assign_metadata_for_key_to_xarray_dataset(
                 _assign_data_for_key_to_xarray_dataset(ds, d[i][1], d[i][2]),
                 d[i][1], None, None),
             d, i + 1)

\* CsvReader.__read
CsvRead(csv) ==
    IF ~csv.readable THEN Raise("OSError")
    ELSE
    LET raw == CsvColumns(csv)
        v == _validate_necessary_parameters(DictKeys(raw))
        d == CsvConvert(raw)
        tmpl == _get_xarray_dataset_template(
                    DictGet(d, TIME), Str(DictGet(d, DEPTH)),
                    DictGet(d, LATITUDE)[1], DictGet(d, LONGITUDE)[1])
    IN  IF v # "" THEN Raise(v)
        ELSE IF ~DictHas(raw, TIME) THEN Raise("KeyError")
        ELSE IF \E k \in DOMAIN csv.times : ~IsTimeText(csv.times[k])
             THEN Raise("ValueError")
        ELSE IF (\E c \in DictKeys(raw) \ {TIME} : DictHas(default_mappings, c))
                    /\ ~IsFloatText(csv.cell)
             THEN Raise("ValueError")
        ELSE IF ~DictHas(raw, DEPTH) \/ ~DictHas(raw, LATITUDE) \/ ~DictHas(raw, LONGITUDE)
             THEN Raise("KeyError")
        ELSE Ok(CsvAssign(tmpl.ds, d, 1))

\* ---------------------------------------------------------------- TobReader
TobUnit(name) ==
    CASE name = "Press" -> Str(<<"dbar">>)
      [] name = "Temp" -> Str(<<"degC">>)
      [] name = "SALIN" -> Str(<<"PSU">>)
      [] OTHER -> Str(<<>>)

\* The fixed rename dictionary of lines 336-345.
TobRenames ==
    << <<"SALIN", SALINITY>>, <<"Temp", TEMPERATURE>>, <<"Cond", CONDUCTIVITY>>,
       <<"Press", PRESSURE>>, <<"SOUND", SPEED_OF_SOUND>>,
       <<"Vbatt", POWER_SUPPLY_INPUT_VOLTAGE>>, <<"SIGMA", "sigma">>,
       <<"Datasets", "sample">> >>

\* latitude of Cuxhaven, line 349
CuxhavenLatitude == Str("53.8187")

RECURSIVE TobAssignUnits(_, _, _)
\* Lines 331-333
TobAssignUnits(ds, column_names, i) ==
    IF i > Len(column_names) THEN ds
    ELSE TobAssignUnits(
             IF HasVar(ds, column_names[i]) /\ TextTruthy(TobUnit(column_names[i]))
             THEN SetAttr(ds, column_names[i], "units", TobUnit(column_names[i]))
             ELSE ds,
             column_names, i + 1)

\* TobReader.__read
TobRead(tob) ==
    IF ~tob.readable THEN Raise("OSError")
    ELSE IF ~tob.marker THEN Raise("ValueError")
    ELSE IF ~tob.unit_line THEN Raise("IndexError")
    ELSE IF ~({"IntD", "IntT"} \subseteq SeqToSet(tob.columns)) THEN Raise("ValueError")
    ELSE
    LET IsData(c) == c \notin {"IntD", "IntT"}
        names == SelectSeq(tob.columns, IsData)
        \* read_csv leaves a date it cannot parse as it is
        parsed == [k \in DOMAIN tob.times |->
                      IF IsTimeText(tob.times[k]) THEN Num(ParseTime(tob.times[k]))
                      ELSE Str(tob.times[k])]
        frame == FromDataframe(parsed,
                     [i \in DOMAIN names |->
                         <<names[i], [k \in DOMAIN tob.times |-> Num(k)]>>])
        renamed == Rename(TobAssignUnits(frame.ds, tob.columns, 1), TobRenames)
        pressure_in_dbar == Var(renamed.ds, PRESSURE).values
        d1 == SetAttr(
                  [renamed.ds EXCEPT !.vars = DictSet(@, DEPTH,
                      [values |-> [k \in DOMAIN pressure_in_dbar |->
                                      z_from_p(pressure_in_dbar[k], CuxhavenLatitude)],
                       attrs |-> EmptyFn])],
                  DEPTH, "units", Str(<<"m">>))
        \* pd.to_datetime(..., errors = 'coerce')
        d2 == [d1 EXCEPT !.vars = DictSet(@, TIME,
                  [Var(d1, TIME) EXCEPT !.values =
                      [k \in DOMAIN @ |-> IF @[k].tag = "num" THEN @[k] ELSE NaT]])]
    IN  IF ~frame.ok THEN frame
        ELSE IF ~renamed.ok THEN renamed
        ELSE Ok(AssignMetadataAll(d2))


\* ----------------------------------------------------------- RbrAsciiReader
\* df.rename(columns = ctdparams.rename_list): names not in the table stay.
RenameColumns(columns) ==
    [i \in DOMAIN columns |-> <<NewName(rename_list, columns[i][1]), columns[i][2]>>]

\* The dataset of lines 441-448: the parsed columns, renamed by rename_list,
\* indexed by the parsed timestamps.
RbrAsciiFrame(rbr) ==
    FromDataframe(
        [k \in DOMAIN rbr.times |-> Num(ParseTime(rbr.times[k]))],
        RenameColumns([i \in DOMAIN rbr.header |->
            <<rbr.header[i], [k \in DOMAIN rbr.times |-> Num(k)]>>]))

\* RbrAsciiReader.__read: __parse_data, then __create_xarray_dataset.
RbrAsciiRead(rbr) ==
    IF ~rbr.readable THEN Raise("OSError")
    ELSE IF rbr.header = <<>> THEN Raise("IndexError")
    ELSE IF \E k \in DOMAIN rbr.times : ~IsTimeText(rbr.times[k]) THEN Raise("ValueError")
    ELSE
    LET frame == RbrAsciiFrame(rbr)
    IN  IF frame.ok THEN Ok(AssignMetadataAll(frame.ds)) ELSE frame

\* --------------------------------------------------------- NortekAsciiReader
\* Lines 541-550: a repeated column name gets its occurrence count appended.
UniqueColumns(columns) ==
    [i \in DOMAIN columns |->
        LET seen == Cardinality({j \in 1..(i - 1) : columns[j] = columns[i]})
        IN  IF seen = 0 THEN columns[i] ELSE columns[i] \o "_" \o ToString(seen)]

NortekTimeColumns == {"Year", "Month", "Day", "Hour", "Minute", "Second"}

RECURSIVE NortekUnits(_, _, _)
\* Lines 569-577: ds[variable].attrs['unit'] = unit for every header.
NortekUnits(ds, headers, i) ==
    IF i > Len(headers) THEN ds
    ELSE NortekUnits(
             SetAttr(ds, NewName(rename_list, headers[i][1]), "unit", headers[i][2]),
             headers, i + 1)

\* NortekAsciiReader.__read
NortekRead(nt) ==
    IF ~nt.readable THEN Raise("OSError")
    ELSE
    LET columns == UniqueColumns([i \in DOMAIN nt.headers |-> nt.headers[i][1]])
        frame == FromDataframe(
                     [k \in DOMAIN nt.times |-> Num(ParseTime(nt.times[k]))],
                     RenameColumns([i \in DOMAIN columns |->
                         <<columns[i], [k \in DOMAIN nt.times |-> Num(k)]>>]))
    IN  IF ~(NortekTimeColumns \subseteq SeqToSet(columns)) THEN Raise("KeyError")
        ELSE IF \E k \in DOMAIN nt.times : ~IsTimeText(nt.times[k])
             THEN Raise("ValueError")
        ELSE IF ~frame.ok THEN frame
        ELSE IF \E i \in DOMAIN nt.headers :
                    ~HasVar(frame.ds, NewName(rename_list, nt.headers[i][1]))
             THEN Raise("KeyError")
        ELSE Ok(AssignMetadataAll(NortekUnits(frame.ds, nt.headers, 1)))

\* --------------------------------------------------------- RbrRskLegacyReader
\* pd.to_datetime(tstamp, unit = 'ms'), in whole seconds.
MillisPerSecond == 1000
MsToDatetime(ms) == ms \div MillisPerSecond

RECURSIVE RskAttrs(_, _, _)
\* Lines 663-668: long_name and units of every channel.
RskAttrs(ds, channels, i) ==
    IF i > Len(channels) THEN ds
    ELSE RskAttrs(
             SetAttr(SetAttr(ds, channels[i].longName, "long_name",
                             Str(<<channels[i].longName>>)),
                     channels[i].longName, "units", channels[i].units),
             channels, i + 1)

\* RbrRskLegacyReader.__read: [result, conn]: the outcome and the state the
\* connection is left in.
RskRead(rsk, mapping) ==
    IF rsk.fail = "connect" THEN [result |-> Raise("OperationalError"), conn |-> "none"]
    ELSE IF rsk.fail \in {"channels", "data"}
    THEN [result |-> Raise("DatabaseError"), conn |-> "open"]
    ELSE
    LET frame == FromDataframe(
                     [k \in DOMAIN rsk.tstamp |-> Num(MsToDatetime(rsk.tstamp[k]))],
                     [i \in DOMAIN rsk.channels |->
                         <<rsk.channels[i].longName,
                           [k \in DOMAIN rsk.tstamp |-> Num(k)]>>])
    IN  [result |-> IF ~frame.ok THEN frame
                    ELSE PerformDefaultPostprocessing(
                             RskAttrs(frame.ds, rsk.channels, 1), mapping,
                             default_mappings),
         conn |-> "closed"]


\* ------------------------------------------------------------------- state
VARIABLES
    cls,            \* class of the reader under construction ("none" before the first)
    pc,             \* "Unread", "Parsing", "Built", "Ready" or "Failed"
    input,          \* the input file(s) handed to the constructor
    data,           \* self.data: Unset (no such attribute), NoData (None) or a dataset
    mappingRef,     \* the object self.mapping refers to: "unset", "None", "default", "caller"
    cnvDefault,     \* the dict that is CnvReader.__init__'s default for mapping
    tobDefault,     \* the dict that is TobReader.__init__'s default for mapping
    callerMapping,  \* the caller's own mapping object (None when none was passed)
    callerGave,     \* its content when the caller passed it
    err,            \* the exception the construction raised, "" if none
    conn,           \* the SQLite connection: "none", "open" or "closed"
    constructed,    \* number of constructions started
    \* one dataset variable under calls of the metadata primitives
    mKey,           \* its key
    mAttrs,         \* its attributes
    mNative,        \* the attributes a label, a unit or a reader has set on it
    mLast,          \* the last call made on it
    \* one dataset under repeated generic post-processing
    ppIn,           \* [ds, mapping, reg]: the dataset, self.mapping, the registry
    ppOut           \* the results of the passes made so far

readerVars == <<cls, pc, input, data, mappingRef, cnvDefault, tobDefault,
                callerMapping, callerGave, err, conn, constructed>>
metaVars == <<mKey, mAttrs, mNative, mLast>>
postVars == <<ppIn, ppOut>>
vars == <<readerVars, metaVars, postVars>>

Unset == [tag |-> "unset"]
NoData == None
Dataset(ds) == [tag |-> "Dataset", ds |-> ds]
Dict(d) == [tag |-> "dict", v |-> d]
NoInput == [kind |-> "none"]
Default == [tag |-> "default"]

\* get_data(): self.data (AttributeError while the attribute does not exist).
get_data == data

\* The object self.mapping refers to, as a Python value.
SelfMapping ==
    CASE mappingRef = "default" /\ cls = "CnvReader" -> Dict(cnvDefault)
      [] mappingRef = "default" /\ cls = "TobReader" -> Dict(tobDefault)
      [] mappingRef = "caller" -> callerMapping
      [] OTHER -> None

\* ------------------------------------------------------------------ inputs
ChannelOrder ==
    <<"timeJ", "timeQ", "timeN", "timeS", "prDM", "t090C", "T090C", "t068",
      "sal00", "latitude", "flag">>
InOrder(order, S) == LET In(c) == c \in S IN SelectSeq(order, In)

TimeChannels == {"timeJ", "timeQ", "timeN", "timeS"}
OtherChannelSets ==
    { {}, {"prDM"}, {"prDM", "t090C"}, {"prDM", "t090C", "sal00"},
      {"prDM", "T090C", "sal00"}, {"prDM", "t068", "t090C", "latitude"},
      {"t090C", "sal00"}, {"prDM", "flag"} }
RawValues == {1, 6}
Bases(lo) == UNION {[1..n -> RawValues] : n \in lo..MaxSamples}
HeaderDate == [year |-> 2020, soy |-> 3600]

CnvFile(channels, base, bad, bad_flag, interval, lat) ==
    [kind |-> "cnv", readable |-> TRUE, channels |-> InOrder(ChannelOrder, channels),
     base |-> base, bad |-> bad, bad_flag |-> bad_flag, interval |-> interval,
     lat |-> lat, lon |-> lat, date |-> HeaderDate]

DefaultBase == [i \in 1..MaxSamples |-> IF i = 1 THEN 6 ELSE 1]
\* Files that differ in their time channels, scan interval and samples.
CnvTimeFiles ==
    {f \in {CnvFile(T \cup {"prDM"}, base, {}, None, interval, Num(54)) :
                T \in SUBSET TimeChannels, base \in Bases(0),
                interval \in {None, Str("0"), Str("2")}} :
        /\ Len(f.channels) <= 2 \/ f.base = DefaultBase
        /\ Len(f.channels) = 1 \/ f.interval = Str("2")}
\* Files that differ in their other channels, bad flag and header position.
CnvChannelFiles ==
    {CnvFile(O \cup {"timeS"}, [i \in 1..MaxSamples |-> 1], bf[2], bf[1], Str("2"), lat) :
        O \in OtherChannelSets,
        bf \in {<<None, {}>>, <<Str("-9999"), {}>>, <<Str("-9999"), {1}>>},
        lat \in {None, Num(54)}}
UnreadableFile == [kind |-> "unreadable", readable |-> FALSE]

\* Mappings a caller passes to CnvReader.
CallerMappings == { <<>>, << <<TEMPERATURE, "t068">> >> }
\* The calls CnvReader(file) and CnvReader(file, mapping) of the model.
CnvCalls ==
    {<<f, Dict(<<>>)>> : f \in CnvTimeFiles}
        \cup {<<f, Default>> :
                 f \in {g \in CnvTimeFiles : Len(g.channels) <= 2 /\ g.base = DefaultBase}}
        \cup ((CnvChannelFiles \cup {UnreadableFile})
                 \X ({Default} \cup {Dict(m) : m \in CallerMappings}))

NetCdfNameLists ==
    { <<>>, <<TIME, PRESSURE>>, <<TIME, DEPTH, TEMPERATURE>>, <<TEMPERATURE>>,
      <<TIME, PRESSURE, TEMPERATURE, SALINITY>>,
      <<TIME, PRESSURE, TEMPERATURE, SALINITY, "density", "potential_temperature">> }
NetCdfFiles ==
    {[kind |-> "netcdf", readable |-> TRUE, names |-> ns, n |-> MaxSamples] :
        ns \in NetCdfNameLists} \cup {UnreadableFile}

TimeColumns(lo) == UNION {[1..n -> TimeTexts] : n \in lo..MaxSamples}

CsvFullColumns == <<TIME, PRESSURE, DEPTH, LATITUDE, LONGITUDE, TEMPERATURE, SALINITY>>
CsvColumnLists ==
    { CsvFullColumns,
      <<TIME, PRESSURE, DEPTH, LATITUDE, LONGITUDE, TEMPERATURE>>,
      <<TIME, DEPTH, LATITUDE, LONGITUDE, "comment">>,
      <<PRESSURE, DEPTH, LATITUDE, LONGITUDE>>,
      <<TIME, PRESSURE, LATITUDE, LONGITUDE>>,
      <<TEMPERATURE, SALINITY>> }
DefaultTimes == [i \in 1..MaxSamples |-> IF i = 1 THEN "00:00:02" ELSE "00:00:01"]
CsvFiles ==
    {f \in {[kind |-> "csv", readable |-> TRUE, cols |-> cols, times |-> times,
             cell |-> cell] :
                cols \in CsvColumnLists, times \in TimeColumns(0), cell \in {"2", "x"}} :
        f.cols = CsvFullColumns \/ f.times = DefaultTimes}
        \cup {UnreadableFile}

TobColumns ==
    <<"Datasets", "IntD", "IntT", "Press", "Temp", "Cond", "SALIN", "SOUND",
      "Vbatt", "SIGMA">>
TobFile(columns, marker, unit_line, times) ==
    [kind |-> "tob", readable |-> TRUE, columns |-> columns, marker |-> marker,
     unit_line |-> unit_line, times |-> times]
TobFiles ==
    {f \in {TobFile(InOrder(TobColumns, SeqToSet(TobColumns) \ drop), TRUE, TRUE, times) :
                drop \in {{}, {"SOUND"}, {"IntT"}, {"SALIN"}}, times \in TimeColumns(0)} :
        f.columns = TobColumns \/ f.times = DefaultTimes}
        \cup {TobFile(TobColumns, FALSE, FALSE, <<>>),
              TobFile(TobColumns, TRUE, FALSE, <<>>), UnreadableFile}

RbrAsciiFiles ==
    {f \in {[kind |-> "rbr", readable |-> TRUE, header |-> header, times |-> times] :
                header \in {<<>>, <<"Temp", "Pres">>, <<"Temp", "Sal", "Pres">>,
                            <<"temperature", "Temp">>, <<"t090C", "Cond">>},
                times \in TimeColumns(0)} :
        f.header = <<"Temp", "Sal", "Pres">> \/ f.times = DefaultTimes}
        \cup {UnreadableFile}

NortekHeaderLists ==
    LET Time == [i \in 1..6 |->
                    <<(<<"Year", "Month", "Day", "Hour", "Minute", "Second">>)[i],
                      Str(<<"unknown">>)>>]
    IN  { Time \o << <<"Speed", Str(<<"m/s">>)>>, <<"Speed", Str(<<"m/s">>)>> >>,
          Time \o << <<"Temp", Str(<<"degC">>)>>, <<"Pres", Str(<<"dbar">>)>> >>,
          Time \o << <<"Temp", Str(<<"degC">>)>>, <<"temperature", Str(<<"degC">>)>> >>,
          << <<"Temp", Str(<<"degC">>)>> >>, <<>> }
NortekFiles ==
    {f \in {[kind |-> "nortek", readable |-> TRUE, headers |-> headers, times |-> times] :
                headers \in NortekHeaderLists, times \in TimeColumns(0)} :
        Len(f.headers) = 8 \/ f.times = DefaultTimes}
        \cup {UnreadableFile}

Channel(shortName, longName, units) ==
    [shortName |-> shortName, longName |-> longName, units |-> units]
RskChannelLists ==
    { <<>>,
      <<Channel("temp00", "Temperature", Str(<<"degC">>))>>,
      <<Channel("temp00", "Temperature", Str(<<"degC">>)),
        Channel("pres00", "Pressure", Str(<<"dbar">>))>>,
      <<Channel("temp00", "temperature", None),
        Channel("temp01", "Temperature", Str(<<"degC">>))>>,
      <<Channel("cond00", "Conductivity", Str(<<"mS/cm">>)),
        Channel("cond01", "Conductivity", Str(<<"mS/cm">>))>> }
RskFiles ==
    {f \in {[kind |-> "rsk", fail |-> "none", channels |-> channels, tstamp |-> tstamp] :
                channels \in RskChannelLists,
                tstamp \in UNION {[1..n -> {1000, 2000}] : n \in 0..MaxSamples}} :
        Len(f.channels) = 1 \/ f.tstamp = [i \in 1..MaxSamples |-> 1000 * i]}
        \cup {[kind |-> "rsk", fail |-> f, channels |-> <<>>, tstamp |-> <<>>] :
                f \in {"connect", "channels", "data"}}
\* Mappings a caller passes to RbrRskLegacyReader.
RskCallerMappings ==
    { <<>>, << <<"T", "Temperature">> >>,
      << <<TEMPERATURE, "Pressure">>, <<PRESSURE, "Temperature">> >> }

\* ------------------------------------------------------------------ actions
\* No construction is under way and the run may start another one.
CanConstruct == pc = "Unread" /\ constructed < MaxReaders

\* The start of a constructor call.  `passed` is the mapping argument:
\* Default (none passed), None or a dict of the caller.  A constructor that
\* calls AbstractReader.__init__ (lines 39-41) sets self.data = None and
\* self.mapping; RbrAsciiReader and NortekAsciiReader do not call it, and
\* their instances have neither attribute until __read assigns self.data.
Construct(class, file, passed, callsSuper) ==
    /\ constructed' = constructed + 1
    /\ cls' = class
    /\ input' = file
    /\ pc' = "Parsing"
    /\ data' = IF callsSuper THEN NoData ELSE Unset
    /\ err' = ""
    /\ conn' = "none"
    /\ mappingRef' = IF ~callsSuper THEN "unset"
                     ELSE IF passed.tag = "dict" THEN "caller" ELSE passed.tag
    /\ callerMapping' = IF passed.tag = "dict" THEN passed ELSE None
    /\ callerGave' = callerMapping'
    /\ UNCHANGED <<cnvDefault, tobDefault, metaVars, postVars>>

\* The end of a construction: self.data assigned and the constructor
\* returning, or the exception leaving it.
Finish(result) ==
    /\ pc' = IF result.ok THEN "Ready" ELSE "Failed"
    /\ data' = IF result.ok THEN Dataset(result.ds) ELSE data
    /\ err' = IF result.ok THEN "" ELSE result.err

\* The caller lets go of the reader (and of the mapping it passed); what the
\* constructors share stays.
Discard ==
    /\ pc \in {"Ready", "Failed"}
    /\ cls' = "none"
    /\ pc' = "Unread"
    /\ input' = NoInput
    /\ data' = Unset
    /\ mappingRef' = "unset"
    /\ callerMapping' = None
    /\ callerGave' = None
    /\ err' = ""
    /\ conn' = "none"
    /\ UNCHANGED <<cnvDefault, tobDefault, constructed, metaVars, postVars>>

CnvReaderInit ==
    /\ CanConstruct
    /\ \E call \in CnvCalls : Construct("CnvReader", call[1], call[2], TRUE)

CnvReaderRead ==
    /\ cls = "CnvReader" /\ pc = "Parsing"
    /\ \E gswNoneLat \in {"raise", "nan"} :
        LET r == CnvRead(input, SelfMapping.v, gswNoneLat)
        IN  /\ Finish(r.result)
            /\ cnvDefault' = IF mappingRef = "default" THEN r.mapping ELSE cnvDefault
            /\ callerMapping' = IF mappingRef = "caller" THEN Dict(r.mapping)
                                ELSE callerMapping
    /\ UNCHANGED <<cls, input, mappingRef, tobDefault, callerGave, conn, constructed,
                   metaVars, postVars>>

TobReaderInit ==
    /\ CanConstruct
    /\ \E file \in TobFiles, passed \in {Default, Dict(<< <<TEMPERATURE, "Temp">> >>)} :
          Construct("TobReader", file, passed, TRUE)

TobReaderRead ==
    /\ cls = "TobReader" /\ pc = "Parsing"
    /\ Finish(TobRead(input))
    /\ UNCHANGED <<cls, input, mappingRef, cnvDefault, tobDefault, callerMapping,
                   callerGave, conn, constructed, metaVars, postVars>>

NetCdfReaderInit ==
    /\ CanConstruct
    /\ \E file \in NetCdfFiles : Construct("NetCdfReader", file, None, TRUE)

\* Line 372: self.data = xr.open_dataset(self.input_file)
NetCdfReaderOpen ==
    /\ cls = "NetCdfReader" /\ pc = "Parsing"
    /\ LET r == OpenDataset(input)
       IN  IF r.ok
           THEN /\ data' = Dataset(r.ds)
                /\ pc' = "Built"
                /\ UNCHANGED err
           ELSE Finish(r)
    /\ UNCHANGED <<cls, input, mappingRef, cnvDefault, tobDefault, callerMapping,
                   callerGave, conn, constructed, metaVars, postVars>>

\* Line 375: the validation of the dataset already stored.
NetCdfReaderValidate ==
    /\ cls = "NetCdfReader" /\ pc = "Built"
    /\ LET v == _validate_necessary_parameters(Variables(data.ds))
       IN  /\ pc' = IF v = "" THEN "Ready" ELSE "Failed"
           /\ err' = v
    /\ UNCHANGED <<cls, input, data, mappingRef, cnvDefault, tobDefault,
                   callerMapping, callerGave, conn, constructed, metaVars, postVars>>

CsvReaderInit ==
    /\ CanConstruct
    /\ \E file \in CsvFiles : Construct("CsvReader", file, None, TRUE)

CsvReaderRead ==
    /\ cls = "CsvReader" /\ pc = "Parsing"
    /\ Finish(CsvRead(input))
    /\ UNCHANGED <<cls, input, mappingRef, cnvDefault, tobDefault, callerMapping,
                   callerGave, conn, constructed, metaVars, postVars>>

RbrAsciiReaderInit ==
    /\ CanConstruct
    /\ \E file \in RbrAsciiFiles : Construct("RbrAsciiReader", file, None, FALSE)

RbrAsciiReaderRead ==
    /\ cls = "RbrAsciiReader" /\ pc = "Parsing"
    /\ Finish(RbrAsciiRead(input))
    /\ UNCHANGED <<cls, input, mappingRef, cnvDefault, tobDefault, callerMapping,
                   callerGave, conn, constructed, metaVars, postVars>>

NortekAsciiReaderInit ==
    /\ CanConstruct
    /\ \E file \in NortekFiles : Construct("NortekAsciiReader", file, None, FALSE)

NortekAsciiReaderRead ==
    /\ cls = "NortekAsciiReader" /\ pc = "Parsing"
    /\ Finish(NortekRead(input))
    /\ UNCHANGED <<cls, input, mappingRef, cnvDefault, tobDefault, callerMapping,
                   callerGave, conn, constructed, metaVars, postVars>>

RbrRskLegacyReaderInit ==
    /\ CanConstruct
    /\ \E file \in RskFiles, passed \in {None} \cup {Dict(m) : m \in RskCallerMappings} :
          Construct("RbrRskLegacyReader", file, passed, TRUE)

RbrRskLegacyReaderRead ==
    /\ cls = "RbrRskLegacyReader" /\ pc = "Parsing"
    /\ LET r == RskRead(input, SelfMapping)
       IN  /\ Finish(r.result)
           /\ conn' = r.conn
    /\ UNCHANGED <<cls, input, mappingRef, cnvDefault, tobDefault, callerMapping,
                   callerGave, constructed, metaVars, postVars>>

ReaderInit ==
    /\ cls = "none"
    /\ pc = "Unread"
    /\ input = NoInput
    /\ data = Unset
    /\ mappingRef = "unset"
    /\ cnvDefault = <<>>
    /\ tobDefault = <<>>
    /\ callerMapping = None
    /\ callerGave = None
    /\ err = ""
    /\ conn = "none"
    /\ constructed = 0

MetaIdle == mKey = "" /\ mAttrs = EmptyFn /\ mNative = {} /\ mLast = None
PostIdle == ppIn = None /\ ppOut = <<>>

Init == ReaderInit /\ MetaIdle /\ PostIdle

Next ==
    \/ CnvReaderInit
    \/ CnvReaderRead
    \/ TobReaderInit
    \/ TobReaderRead
    \/ NetCdfReaderInit
    \/ NetCdfReaderOpen
    \/ NetCdfReaderValidate
    \/ CsvReaderInit
    \/ CsvReaderRead
    \/ RbrAsciiReaderInit
    \/ RbrAsciiReaderRead
    \/ NortekAsciiReaderInit
    \/ NortekAsciiReaderRead
    \/ RbrRskLegacyReaderInit
    \/ RbrRskLegacyReaderRead
    \/ Discard

\* The readers: constructions one after the other.
Spec == Init /\ [][Next]_vars

\* ------------------------------------------- the metadata primitives alone
\* One variable of a dataset, under any sequence of the calls the readers
\* make on it: _assign_data_for_key_to_xarray_dataset, an attribute set by the
\* reader itself, _assign_metadata_for_key_to_xarray_dataset with or without
\* label and unit.
MetaKeys == {TEMPERATURE, DEPTH, TIME, "flag"}
MetaLabels ==
    {None, Str(<<>>), Str(<<"Temp">>), Str(<<"Temperature">>),
     Str(<<"Temp", " ", "[", "K", "]">>), Str(<<"Temp", " ", "K">>),
     Str(<<"Temp", " ">>)}
MetaUnits == {None, Str(<<>>), Str(<<"K">>), Str(<<"degC">>)}

MetaInit ==
    /\ ReaderInit /\ PostIdle
    /\ mKey \in MetaKeys /\ mAttrs = EmptyFn /\ mNative = {} /\ mLast = None

\* ds[key] = xr.DataArray(...); ds[key].attrs = {}
MetaAssignData ==
    /\ mAttrs' = EmptyFn
    /\ mNative' = {}
    /\ mLast' = [tag |-> "call", op |-> "assign_data"]
    /\ UNCHANGED <<mKey, readerVars, postVars>>

\* ds[key].attrs[attribute] = value by the reader (lines 333, 351, 667, 668)
MetaSetAttr ==
    \E attribute \in {"long_name", "units"}, value \in MetaUnits :
        /\ mAttrs' = Put(mAttrs, attribute, [val |-> value, src |-> "native"])
        /\ mNative' = mNative \cup {attribute}
        /\ mLast' = [tag |-> "call", op |-> "set_attr", attribute |-> attribute, value |-> value]
        /\ UNCHANGED <<mKey, readerVars, postVars>>

MetaAssignMetadata ==
    \E label \in MetaLabels, unit \in MetaUnits :
        /\ mAttrs' = AssignMetadata(mAttrs, mKey, label, unit)
        /\ mNative' = mNative \cup (IF TextTruthy(unit) THEN {"units"} ELSE {})
                              \cup (IF TextTruthy(label) THEN {"long_name"} ELSE {})
        /\ mLast' = [tag |-> "call", op |-> "assign_metadata", label |-> label, unit |-> unit]
        /\ UNCHANGED <<mKey, readerVars, postVars>>

MetaNext == MetaAssignData \/ MetaSetAttr \/ MetaAssignMetadata

SpecMeta == MetaInit /\ [][MetaNext]_vars

\* ---------------------------------------- the generic post-processing alone
\* A dataset given by its variable names, a caller mapping and a registry,
\* under repeated calls of _perform_default_postprocessing.
MaxPasses == 2
PostNames == <<"temperature", "Temperature", "t090C", "t068", "pressure", "x">>
PostDatasets ==
    {[vars |-> [i \in DOMAIN names |->
                   <<names[i], [values |-> <<>>, attrs |-> EmptyFn]>>],
      coords |-> {}, attrs |-> EmptyFn] :
        names \in {InOrder(PostNames, S) :
                     S \in {T \in SUBSET SeqToSet(PostNames) : Cardinality(T) <= 3}}}
PostMappings ==
    {None, Dict(<<>>), Dict(<< <<TEMPERATURE, "x">> >>),
     Dict(<< <<"x", TEMPERATURE>> >>),
     Dict(<< <<"x", "t068">>, <<"t068", "t090C">> >>)}
PostRegistries == {default_mappings, << <<TEMPERATURE, <<"t068", "t090C">> >> >>}

PostInit ==
    /\ ReaderInit /\ MetaIdle
    /\ ppIn \in [ds : PostDatasets, mapping : PostMappings, reg : PostRegistries]
    /\ ppOut = <<>>

PostPass ==
    /\ Len(ppOut) < MaxPasses
    /\ IF ppOut = <<>> THEN TRUE ELSE ppOut[Len(ppOut)].ok
    /\ ppOut' = Append(ppOut,
                    PerformDefaultPostprocessing(
                        IF ppOut = <<>> THEN ppIn.ds ELSE ppOut[Len(ppOut)].ds,
                        ppIn.mapping, ppIn.reg))
    /\ UNCHANGED <<ppIn, readerVars, metaVars>>

PostNext == PostPass

SpecPost == PostInit /\ [][PostNext]_vars

\* ================================================================== claims
TimeKeys == {TIME, TIME_J, TIME_Q, TIME_N}
DepthKeys == {PRESSURE, DEPTH}
RegistryKeys == DictKeys(default_mappings)
HasData == data.tag = "Dataset"
Done == pc \in {"Ready", "Failed"}

\* C1: get_data() gives a dataset only once construction has succeeded: in
\* every state where the reader holds a dataset, the reader is Ready.
C1_DataOnlyAfterSuccess == HasData => pc = "Ready"

\* The container a CNV, NetCDF or CSV construction handed to
\* _validate_necessary_parameters.
ValidatedKeys ==
    CASE cls = "CnvReader" -> DictKeys(SelfMapping.v)
      [] cls = "CsvReader" -> DictKeys(CsvColumns(input))
      [] cls = "NetCdfReader" -> SeqToSet(input.names)
Validated ==
    /\ cls \in {"CnvReader", "CsvReader", "NetCdfReader"}
    /\ Done
    /\ input.readable

\* C2: a construction whose validated container has none of the time keys, or
\* neither pressure nor depth, ends with a ValueError and without a dataset.
C2_ValidationRejects ==
    (Validated /\ (ValidatedKeys \cap TimeKeys = {} \/ ValidatedKeys \cap DepthKeys = {}))
        => (pc = "Failed" /\ err = "ValueError" /\ ~HasData)

\* What the construction under way would have done had no reader been
\* constructed before it: the read on a fresh empty default mapping.
MatchesFresh(gswNoneLat) ==
    LET fresh == CnvRead(input, <<>>, gswNoneLat)
    IN  /\ SelfMapping.v = fresh.mapping
        /\ IF fresh.result.ok
           THEN pc = "Ready" /\ data = Dataset(fresh.result.ds)
           ELSE pc = "Failed" /\ err = fresh.result.err

\* C3: readers share no mutable state: a CnvReader constructed without a
\* mapping ends with the mapping and the outcome it has when it is the first
\* reader ever constructed, and a mapping the caller passed is left as it was.
C3_NoSharedState ==
    /\ (cls = "CnvReader" /\ Done /\ mappingRef = "default")
           => \E g \in {"raise", "nan"} : MatchesFresh(g)
    /\ (Done /\ mappingRef = "caller") => callerMapping = callerGave

\* C4: in a CNV dataset built from a file that declares a bad flag, each
\* mapped data variable holds NaN where the channel holds the flag's number
\* and the channel's value elsewhere, sample by sample.
C4_BadFlagReplaced ==
    (cls = "CnvReader" /\ pc = "Ready" /\ ~IsNone(input.bad_flag))
        => \A i \in DOMAIN SelfMapping.v :
              LET key == SelfMapping.v[i][1]
                  raw == CnvData(input, SelfMapping.v[i][2])
              IN  key \in DataVars(data.ds)
                      => Var(data.ds, key).values =
                            [k \in DOMAIN raw |->
                                IF raw[k].v = FloatOf(input.bad_flag.v)
                                THEN NaN ELSE raw[k]]

\* C5: on a variable, an attribute that a label, a unit or a reader has set
\* is stored with the value of that source, and a registry default is stored
\* only for an attribute no such source has set.
C5_MetadataPriority ==
    /\ \A a \in mNative : a \in DOMAIN mAttrs /\ mAttrs[a].src = "native"
    /\ \A a \in DOMAIN mAttrs : mAttrs[a].src = "registry" => a \notin mNative

\* C5 witness: a unit was given for a key with registry defaults, and the
\* last call was the registry-only one, which filled long_name and left units.
C5_Witness ==
    /\ mKey = TEMPERATURE
    /\ mLast.tag = "call" /\ mLast.op = "assign_metadata"
    /\ IsNone(mLast.label) /\ IsNone(mLast.unit)
    /\ mNative = {"units"}
    /\ mAttrs["units"].val = Str(<<"K">>)
    /\ mAttrs["long_name"].src = "registry"

\* The CNV constructions in which nothing but the time decoding can fail: a
\* readable file with a pressure channel and a header position, read with a
\* fresh empty mapping of the caller.
PlainCnv ==
    /\ cls = "CnvReader" /\ Done /\ input.readable
    /\ mappingRef = "caller" /\ callerGave = Dict(<<>>)
    /\ "prDM" \in SeqToSet(input.channels)
    /\ ~IsNone(input.lat)
MappedTimeKeys == DictKeys(SelfMapping.v) \cap {TIME_J, TIME_Q, TIME_N, TIME_S}
TimeValues == Var(data.ds, TIME).values

\* The timestamps the highest-priority mapped time channel stands for.
ExpectedTime ==
    LET key == CASE TIME_J \in MappedTimeKeys -> TIME_J
                 [] TIME_Q \in MappedTimeKeys -> TIME_Q
                 [] TIME_N \in MappedTimeKeys -> TIME_N
                 [] OTHER -> TIME_S
        raw == CnvData(input, DictGet(SelfMapping.v, key))
        reference == CASE key = TIME_J -> YearStart(input.date.year)
                       [] key = TIME_Q -> YearStart(2000)
                       [] key = TIME_N -> YearStart(1970)
                       [] OTHER -> DateToSeconds(input.date)
        scale == IF key = TIME_J THEN SecondsPerDay \div DayFractions ELSE 1
    IN  [i \in DOMAIN raw |-> Num(reference + raw[i].v * scale)]

\* C6: with any set of time channels mapped, the construction succeeds and the
\* time coordinate is the decoding of the highest-priority one, value by value.
C6_TimePriority ==
    (PlainCnv /\ MappedTimeKeys # {})
        => (pc = "Ready" /\ TimeValues = ExpectedTime)

\* C7: without a mapped time channel, the construction fails and stores no
\* dataset when the header has no scan interval, and otherwise has the time
\* coordinate offset + i * interval for i = 0 .. N-1.
C7_ScanInterval ==
    (PlainCnv /\ MappedTimeKeys = {})
        => IF IsNone(input.interval)
           THEN pc = "Failed" /\ ~HasData
           ELSE /\ pc = "Ready"
                /\ TimeValues =
                      [i \in 1..Len(input.base) |->
                          Num(DateToSeconds(input.date)
                                  + (i - 1) * FloatOf(input.interval.v))]

\* C8: a successfully constructed reader's dataset has density and
\* potential_temperature exactly when it has salinity, temperature and
\* pressure, and has neither without salinity.
C8_DerivedGating ==
    (pc = "Ready" /\ HasData)
        => LET V == Variables(data.ds)
           IN  /\ ({SALINITY, TEMPERATURE, PRESSURE} \subseteq V)
                      <=> ({"density", "potential_temperature"} \subseteq V)
               /\ SALINITY \notin V
                      => {"density", "potential_temperature"} \cap V = {}

\* The names the caller's mapping asks to rename.
MappingSources(mapping) ==
    IF IsNone(mapping) THEN {} ELSE {mapping.v[i][2] : i \in DOMAIN mapping.v}

\* C9: a second pass of the generic post-processing succeeds with the variable
\* names of the first, and a variable named by a registry key, which the
\* caller's mapping does not ask to rename, keeps its name.
C9_PostIdempotent ==
    /\ Len(ppOut) = 2 =>
          (ppOut[2].ok /\ Variables(ppOut[2].ds) = Variables(ppOut[1].ds))
    /\ (Len(ppOut) >= 1 /\ ppOut[1].ok) =>
          \A n \in (Variables(ppIn.ds) \cap DictKeys(ppIn.reg))
                        \ MappingSources(ppIn.mapping) :
              n \in Variables(ppOut[1].ds)

\* The first alias of a registry entry that some raw name matches without
\* regard to case, 0 when none does.
FirstMatch(aliases, raw) ==
    LET hits == {j \in DOMAIN aliases : \E n \in raw : Lower(n) = Lower(aliases[j])}
    IN  IF hits = {} THEN 0 ELSE CHOOSE j \in hits : \A k \in hits : j <= k

\* C10: a raw name that differs from a registered alias only in case is
\* resolved to the alias's key, the first matching alias of a key winning:
\* in the CNV channel mapping for the keys the caller did not give, and in the
\* generic renaming for the keys the dataset does not have.
C10_CaseInsensitive ==
    /\ (cls = "CnvReader" /\ Done /\ input.readable /\ mappingRef = "caller")
          => \A e \in DOMAIN default_mappings :
                LET key == default_mappings[e][1]
                    aliases == default_mappings[e][2]
                    j == FirstMatch(aliases, SeqToSet(input.channels))
                IN  (j # 0 /\ ~DictHas(callerGave.v, key))
                        => /\ DictHas(callerMapping.v, key)
                           /\ Lower(DictGet(callerMapping.v, key)) = Lower(aliases[j])
    /\ (cls = "RbrRskLegacyReader" /\ pc = "Ready" /\ mappingRef = "None")
          => \A e \in DOMAIN default_mappings :
                LET key == default_mappings[e][1]
                    raw == {input.channels[c].longName : c \in DOMAIN input.channels}
                IN  (FirstMatch(default_mappings[e][2], raw) # 0 /\ key \notin raw)
                        => HasVar(data.ds, key)

\* C11: when a construction has returned or raised, no handle its read routine
\* opened is still open. The text readers open their files in `with` blocks,
\* which close them inside the read step; the handle that outlives a step is
\* the SQLite connection of RbrRskLegacyReader.
C11_HandlesClosed == Done => conn # "open"

\* The number of samples the file under construction holds.
Samples ==
    CASE input.kind = "cnv" -> Len(input.base)
      [] input.kind = "rsk" -> Len(input.tstamp)
      [] input.kind = "netcdf" -> input.n
      [] OTHER -> Len(input.times)

\* Each timestamp is at or after the one before it (a missing timestamp, NaT,
\* is compared with nothing).
NonDecreasing(values) ==
    \A i \in 1..(Len(values) - 1) :
        (values[i].tag = "num" /\ values[i + 1].tag = "num")
            => values[i].v <= values[i + 1].v

\* C12: the time coordinate of a successfully constructed reader's dataset is
\* non-decreasing and has one entry for each sample of the input.
C12_TimeMonotone ==
    (pc = "Ready" /\ HasData /\ HasVar(data.ds, TIME))
        => /\ Len(Var(data.ds, TIME).values) = Samples
           /\ NonDecreasing(Var(data.ds, TIME).values)

\* The length half of C12 alone.
C12_LengthOnly ==
    (pc = "Ready" /\ HasData /\ HasVar(data.ds, TIME))
        => Len(Var(data.ds, TIME).values) = Samples

\* C13: the dataset of a successfully constructed RbrAsciiReader is the
\* generic post-processing pass, with no caller mapping, applied to the
\* dataset built from its parsed and table-renamed columns.
C13_RbrPostprocessed ==
    (cls = "RbrAsciiReader" /\ pc = "Ready")
        => LET built == RbrAsciiFrame(input)
           IN  /\ built.ok
               /\ PerformDefaultPostprocessing(built.ds, None, default_mappings)
                      = Ok(data.ds)

\* The text pat occurs in the text s.
Occurs(pat, s) ==
    \E i \in 1..(Len(s) - Len(pat) + 1) : SubSeq(s, i, i + Len(pat) - 1) = pat

\* The label without the unit text, bracketed or bare, and trimmed; the label
\* itself when the unit does not occur in it.
LabelWithoutUnit(label, unit) ==
    IF Occurs(unit, label)
    THEN Strip(Replace(Replace(label, <<"[">> \o unit \o <<"]">>), unit))
    ELSE label

\* C14: after a call with a label and a unit, long_name is the label without
\* the unit text, trimmed, when the unit occurs in the label, bracketed or
\* not, and the label unchanged when it does not.
C14_UnitStripped ==
    (mLast.tag = "call" /\ mLast.op = "assign_metadata"
        /\ TextTruthy(mLast.label) /\ TextTruthy(mLast.unit))
        => mAttrs["long_name"].val = Str(LabelWithoutUnit(mLast.label.v, mLast.unit.v))

\* C15: a CNV file without a header latitude, read with the latitude and
\* pressure channels mapped, is constructed successfully, its depth is the
\* conversion of each pressure sample at the first value of the latitude
\* channel, and that value is the dataset's latitude attribute.
C15_LatitudeFallback ==
    (/\ cls = "CnvReader" /\ Done /\ input.readable
     /\ mappingRef = "caller" /\ callerGave = Dict(<<>>)
     /\ IsNone(input.lat)
     /\ DictHas(SelfMapping.v, LATITUDE) /\ DictHas(SelfMapping.v, PRESSURE))
        => LET first == CnvData(input, DictGet(SelfMapping.v, LATITUDE))[1]
               p == CnvData(input, DictGet(SelfMapping.v, PRESSURE))
           IN  /\ pc = "Ready"
               /\ Var(data.ds, DEPTH).values = [i \in DOMAIN p |-> z_from_p(p[i], first)]
               /\ data.ds.attrs["latitude"] = first

====
